---------------------------- MODULE Spec2Model ----------------------------
(***************************************************************************)
(* A model of the Prometheus system-metrics exporter of src/main.py: the   *)
(* import-time configuration, the program entry point with its two         *)
(* exception handlers, the HTTP request handler MetricsHandler.do_GET and  *)
(* generate_metrics.  The HTTP server itself (http.server.HTTPServer, a    *)
(* single-threaded socketserver.TCPServer) is the environment the program  *)
(* runs in; its accept loop and method dispatch are modelled as far as the *)
(* program's own lines depend on them.                                     *)
(*                                                                         *)
(* Text is modelled as a sequence of tokens.  A line is a sequence of      *)
(* tokens that are written separated by single spaces; the token NL is the *)
(* newline character that "\n".join puts between two lines.                *)
(***************************************************************************)
EXTENDS Integers, Sequences, FiniteSets, TLC

VARIABLES
    envPort,     \* os.environ.get("EXPORTER_PORT"): a sequence of characters, or Unset
    port,        \* the global EXPORTER_PORT: <<n>> once line 12 has run, <<>> before
    pc,          \* position of the main thread in the script
    exitStatus,  \* <<n>> once the process has exited with status n, <<>> while it runs
    listening,   \* the listening socket of HTTPServer is bound and open
    log,         \* the records written by logger, in order: <<level, event>>
    clients,     \* per client: its request, its connection and what it received so far
    backlog,     \* connections waiting to be accepted, in arrival order
    cur,         \* {c} while the handler works on the request of client c, {} otherwise
    hpc,         \* position inside the request handler
    frame,       \* local variables of generate_metrics for the current request
    sigint,      \* the interrupt signal: "none", "taken" once KeyboardInterrupt was raised
    bind,        \* history: the outcome of line 114: "none" before it, then "ok" or "failed"
    sampled,     \* history: per client, the OS values returned to the reads made for its request
    intrDuring   \* history: {c} if the request of client c was in flight when the interrupt was taken

vars == <<envPort, port, pc, exitStatus, listening, log, clients, backlog,
          cur, hpc, frame, sigint, bind, sampled, intrDuring>>

(***************************************************************************)
(* Bounds of the model.                                                    *)
(***************************************************************************)
NumClients == 2
MaxPortLen == 3

Clients == 1 .. NumClients
Unset == <<"unset">>

(***************************************************************************)
(* Line 12: int(os.environ.get("EXPORTER_PORT", "8081")).                  *)
(***************************************************************************)
DefaultPortText == <<"8", "0", "8", "1">>

PortChars == {"8", "a", "-", " ", "_"}

RECURSIVE SeqsUpTo(_)
SeqsUpTo(n) ==
    IF n = 0 THEN {<<>>}
    ELSE LET shorter == SeqsUpTo(n - 1)
         IN  shorter \cup {Append(s, ch) : s \in {t \in shorter : Len(t) = n - 1}, ch \in PortChars}

PortTexts == SeqsUpTo(MaxPortLen)

Digits == {"0", "1", "2", "3", "4", "5", "6", "7", "8", "9"}

DigitVal(ch) ==
    CASE ch = "0" -> 0 [] ch = "1" -> 1 [] ch = "2" -> 2 [] ch = "3" -> 3
      [] ch = "4" -> 4 [] ch = "5" -> 5 [] ch = "6" -> 6 [] ch = "7" -> 7
      [] ch = "8" -> 8 [] ch = "9" -> 9

IsSpace(ch) == ch \in {" ", "\t", "\n"}

RECURSIVE LStrip(_)
LStrip(s) == IF s # <<>> /\ IsSpace(Head(s)) THEN LStrip(Tail(s)) ELSE s

RECURSIVE RStrip(_)
RStrip(s) ==
    IF s # <<>> /\ IsSpace(s[Len(s)]) THEN RStrip(SubSeq(s, 1, Len(s) - 1)) ELSE s

Strip(s) == RStrip(LStrip(s))

\* The digits of an int literal after its sign: digits, single underscores
\* only between two digits.
DigitsOk(d) ==
    /\ d # <<>>
    /\ \A i \in 1 .. Len(d) :
          \/ d[i] \in Digits
          \/ /\ d[i] = "_"
             /\ i > 1 /\ i < Len(d)
             /\ d[i - 1] \in Digits /\ d[i + 1] \in Digits

RECURSIVE DigitsValue(_, _)
DigitsValue(d, acc) ==
    IF d = <<>> THEN acc
    ELSE IF Head(d) = "_" THEN DigitsValue(Tail(d), acc)
    ELSE DigitsValue(Tail(d), 10 * acc + DigitVal(Head(d)))

HasSign(t) == t # <<>> /\ Head(t) \in {"+", "-"}

Unsigned(t) == IF HasSign(t) THEN Tail(t) ELSE t

\* int(s) returns a value
IntParses(s) == DigitsOk(Unsigned(Strip(s)))

\* int(s), where it returns a value
IntValue(s) ==
    LET t == Strip(s)
        v == DigitsValue(Unsigned(t), 0)
    IN  IF HasSign(t) /\ Head(t) = "-" THEN 0 - v ELSE v

\* the default taken also when the value is set and is no number
PortTextWithFallback(env) == IF env = Unset \/ ~IntParses(env) THEN DefaultPortText ELSE env

\* os.environ.get("EXPORTER_PORT", "8081")
PortText(env) == IF env = Unset THEN DefaultPortText ELSE env


(***************************************************************************)
(* generate_metrics, lines 29-71.                                          *)
(***************************************************************************)
NL == "\n"

\* f"{x}" of an int: its decimal digits
IntStr(n) == ToString(n)

\* f"{x}" of the float psutil.cpu_percent() returns, a percentage rounded to
\* one decimal, held here in tenths of a percent: 425 is written 42.5
FloatStr(tenths) == ToString(tenths \div 10) \o "." \o ToString(tenths % 10)

\* what the operating system may report at the moment of a read
OsStates ==
    { [cpu |-> 425,  mem_total |-> 16, mem_available |-> 8,  disk_total |-> 100, disk_used |-> 40],
      [cpu |-> 1000, mem_total |-> 16, mem_available |-> 0,  disk_total |-> 100, disk_used |-> 100] }

\* line 43: cpu_usage = psutil.cpu_percent()
ReadCpu(o) == "cpu_usage" :> o.cpu

\* memory_used taken to be the available memory, the subtraction of line 47 left out
ReadMemoryNoSubtraction(o) ==
    ("memory_total" :> o.mem_total) @@ ("memory_used" :> o.mem_available)

\* lines 45-47: memory_total = mem_info.total; memory_used = memory_total - mem_info.available
ReadMemory(o) ==
    ("memory_total" :> o.mem_total) @@ ("memory_used" :> (o.mem_total - o.mem_available))

\* lines 49-51: disk_total = disk_info.total; disk_used = disk_info.used
ReadDisk(o) == ("disk_total" :> o.disk_total) @@ ("disk_used" :> o.disk_used)

\* lines 53-69: the list metrics, built from the local variables
MetricLines(f) ==
    << <<"#", "HELP", "cpu_usage", "CPU usage percentage">>,
       <<"#", "TYPE", "cpu_usage", "gauge">>,
       <<"cpu_usage", FloatStr(f.cpu_usage)>>,
       <<"#", "HELP", "memory_total", "Total system memory in bytes">>,
       <<"#", "TYPE", "memory_total", "gauge">>,
       <<"memory_total", IntStr(f.memory_total)>>,
       <<"#", "HELP", "memory_used", "Used system memory in bytes">>,
       <<"#", "TYPE", "memory_used", "gauge">>,
       <<"memory_used", IntStr(f.memory_used)>>,
       <<"#", "HELP", "disk_total", "Total disk space in bytes">>,
       <<"#", "TYPE", "disk_total", "gauge">>,
       <<"disk_total", IntStr(f.disk_total)>>,
       <<"#", "HELP", "disk_used", "Used disk space in bytes">>,
       <<"#", "TYPE", "disk_used", "gauge">>,
       <<"disk_used", IntStr(f.disk_used)>> >>

\* line 71: "\n".join(metrics)
RECURSIVE Join(_)
Join(lines) ==
    IF lines = <<>> THEN <<>>
    ELSE IF Len(lines) = 1 THEN Head(lines)
    ELSE Head(lines) \o <<NL>> \o Join(Tail(lines))

\* the text generate_metrics returns for the local variables f
MetricsText(f) == Join(MetricLines(f))


(***************************************************************************)
(* The requests clients send, and what a client has received.              *)
(***************************************************************************)
Methods == {"GET", "POST", "HEAD"}

Paths == {"/", "", "/metrics", "//", "/?x=1"}

\* st: "idle", "queued" (connected, request sent), "active" (in the handler),
\* "closed" (the server closed the connection); status, headers and body are
\* what the server wrote to the connection; raised is history: the handler of
\* this request raised an exception
IdleClient ==
    [st |-> "idle", method |-> "", path |-> "", status |-> <<>>, headers |-> <<>>,
     body |-> <<>>, raised |-> FALSE]

NoSample == [cpu |-> <<>>, memory |-> <<>>, disk |-> <<>>]

\* BaseHTTPRequestHandler.send_response(code) as called on lines 94 and 100:
\* the status line and the Server and Date headers
SendResponse(code) == [status |-> <<code>>, headers |-> << <<"Server">>, <<"Date">> >>]

\* send_header(name, value) as called on line 95
SendHeader(buf, name, value) == [buf EXCEPT !.headers = Append(@, <<name, value>>)]

\* lines 94-95: send_response(200); send_header("Content-type", "text/plain")
OkHeaders == SendHeader(SendResponse(200), "Content-type", "text/plain")

\* line 100: send_response(404)
NotFoundHeaders == SendResponse(404)

\* every method handled by the code of do_GET
HandlerMethodsAny == Methods

\* the do_<METHOD> methods class MetricsHandler defines (lines 74-101): do_GET only
HandlerMethods == {"GET"}

\* the exception leaves serve_forever and reaches the except clause of line 119
AfterHandlerExceptionPropagates == "except_err"

\* where the main thread continues when do_GET raises an Exception inside
\* server.serve_forever() (line 116): socketserver reports it and goes on serving
AfterHandlerException == "serve"

\* the exit status of the script once an except clause of lines 117-120 has
\* logged: the script ends there, no sys.exit and no re-raise
StatusAfterExcept == <<0>>

(***************************************************************************)
(* The lifecycle state of the server, from the position of the main thread *)
(***************************************************************************)
State ==
    CASE pc \in {"import", "main", "bind"} -> "Idle"
      [] pc \in {"bound", "serve"}         -> "Listening"
      [] pc = "handling"                   -> "Handling"
      [] pc = "except_kbd"                 -> "ShuttingDown"
      [] pc = "except_err"                 -> "Failing"
      [] pc = "exited"                     -> "Stopped"

\* the state when the interpreter starts the script, with EXPORTER_PORT one of values
Start(values) ==
    /\ envPort \in values
    /\ port = <<>>
    /\ pc = "import"
    /\ exitStatus = <<>>
    /\ listening = FALSE
    /\ log = <<>>
    /\ clients = [c \in Clients |-> IdleClient]
    /\ backlog = <<>>
    /\ cur = {}
    /\ hpc = "none"
    /\ frame = <<>>
    /\ sigint = "none"
    /\ bind = "none"
    /\ sampled = [c \in Clients |-> NoSample]
    /\ intrDuring = {}

\* EXPORTER_PORT unset, a text that is no number, a number that is no port
Init == Start({Unset, <<"8", "a">>, <<"-", "8">>})

\* EXPORTER_PORT unset or any text of at most MaxPortLen characters of PortChars
InitConfig == Start({Unset} \cup PortTexts)

handlerVars == <<cur, hpc, frame>>
clientVars == <<clients, backlog, sampled>>

(***************************************************************************)
(* Startup: lines 9-12 and 112-115.                                        *)
(***************************************************************************)
\* line 12: EXPORTER_PORT = int(os.environ.get("EXPORTER_PORT", "8081")); a
\* ValueError here is outside every try: traceback, exit status 1
LoadConfig ==
    /\ pc = "import"
    /\ IF IntParses(PortText(envPort))
       THEN /\ port' = <<IntValue(PortText(envPort))>>
            /\ pc' = "main"
            /\ exitStatus' = exitStatus
       ELSE /\ port' = port
            /\ pc' = "exited"
            /\ exitStatus' = <<1>>
    /\ UNCHANGED <<envPort, listening, log, sigint, bind, intrDuring>>
    /\ UNCHANGED handlerVars
    /\ UNCHANGED clientVars

\* line 112: logger.info("Starting exporter on ...")
LogStarting ==
    /\ pc = "main"
    /\ log' = Append(log, <<"INFO", "Starting exporter">>)
    /\ pc' = "bind"
    /\ UNCHANGED <<envPort, port, exitStatus, listening, sigint, bind, intrDuring>>
    /\ UNCHANGED handlerVars
    /\ UNCHANGED clientVars

\* line 114: server = HTTPServer((EXPORTER_HOST, EXPORTER_PORT), MetricsHandler).
\* A port outside 0..65535 raises OverflowError; otherwise the bind succeeds or
\* raises OSError (address in use, permission denied), as the host decides.
Bind ==
    /\ pc = "bind"
    /\ \E hostAllows \in BOOLEAN :
          IF port[1] \in 0 .. 65535 /\ hostAllows
          THEN /\ listening' = TRUE
               /\ bind' = "ok"
               /\ pc' = "bound"
          ELSE /\ listening' = FALSE
               /\ bind' = "failed"
               /\ pc' = "except_err"
    /\ UNCHANGED <<envPort, port, exitStatus, log, sigint, intrDuring>>
    /\ UNCHANGED handlerVars
    /\ UNCHANGED clientVars

\* line 115: logger.info("Exporter running on ..."), then line 116 enters serve_forever
LogRunning ==
    /\ pc = "bound"
    /\ log' = Append(log, <<"INFO", "Exporter running">>)
    /\ pc' = "serve"
    /\ UNCHANGED <<envPort, port, exitStatus, listening, sigint, bind, intrDuring>>
    /\ UNCHANGED handlerVars
    /\ UNCHANGED clientVars


(***************************************************************************)
(* Clients.                                                                *)
(***************************************************************************)
\* a client connects and sends its request line; the connection waits in the
\* listen queue of the bound socket until the server accepts it
Connect(c) ==
    /\ listening
    /\ clients[c].st = "idle"
    /\ \E m \in Methods, p \in Paths :
          clients' = [clients EXCEPT ![c] = [@ EXCEPT !.st = "queued", !.method = m, !.path = p]]
    /\ backlog' = Append(backlog, c)
    /\ UNCHANGED <<envPort, port, pc, exitStatus, listening, log, sigint, bind, sampled, intrDuring>>
    /\ UNCHANGED handlerVars

(***************************************************************************)
(* server.serve_forever(), line 116, and MetricsHandler, lines 74-101.     *)
(***************************************************************************)
\* what BaseHTTPRequestHandler answers to a method the handler class has no
\* do_<METHOD> for: send_error(501), with an error page unless the method is HEAD
Unsupported(cl) ==
    [cl EXCEPT !.st = "closed",
               !.status = <<501>>,
               !.headers = << <<"Server">>, <<"Date">>, <<"Connection", "close">> >>
                           \o (IF cl.method = "HEAD" THEN <<>>
                               ELSE << <<"Content-Type", "text/html;charset=utf-8">> >>),
               !.body = IF cl.method = "HEAD" THEN <<>> ELSE <<"Error response">>]

\* the connections that were waiting are dropped when one is accepted
RestOfBacklogDropped(q) == <<>>

\* the connections still waiting once the server has accepted the first one
RestOfBacklog(q) == Tail(q)

\* serve_forever accepts the next connection, reads the request line and
\* dispatches on the method: do_GET if the method is GET, 501 otherwise
Accept ==
    /\ pc = "serve"
    /\ backlog # <<>>
    /\ LET c == Head(backlog) IN
          IF clients[c].method \in HandlerMethods
          THEN /\ clients' = [clients EXCEPT ![c].st = "active"]
               /\ cur' = {c}
               /\ hpc' = "do_GET"
               /\ pc' = "handling"
          ELSE /\ clients' = [clients EXCEPT ![c] = Unsupported(@)]
               /\ UNCHANGED <<cur, hpc, pc>>
    /\ backlog' = RestOfBacklog(backlog)
    /\ UNCHANGED <<envPort, port, exitStatus, listening, log, frame, sigint, bind, sampled, intrDuring>>

\* the path compared after dropping a query string
IsMetricsPathIgnoringQuery(path) == path \in {"/", "/?x=1"}

\* line 90: if self.path == "/"
IsMetricsPath(path) == path = "/"

\* status line and headers sent before generate_metrics is called
DoGetOrderHeadersFirst == <<"headers", "cpu", "mem", "disk", "write">>

\* the order of the steps of do_GET on the metrics path, lines 92-97: the three
\* reads of generate_metrics (line 92), then send_response, send_header and
\* end_headers (lines 94-96), then wfile.write (line 97)
DoGetOrder == <<"cpu", "mem", "disk", "headers", "write">>

StepAfter(h) ==
    LET i == CHOOSE k \in 1 .. Len(DoGetOrder) : DoGetOrder[k] = h
    IN  IF i = Len(DoGetOrder) THEN "done" ELSE DoGetOrder[i + 1]

\* lines 90-91: the metrics branch logs the request and calls generate_metrics
DoGetMetrics ==
    /\ pc = "handling" /\ hpc = "do_GET"
    /\ \E c \in cur :
          /\ IsMetricsPath(clients[c].path)
          /\ log' = Append(log, <<"INFO", "Received GET request for metrics.">>)
          /\ frame' = <<>>
          /\ hpc' = DoGetOrder[1]
    /\ UNCHANGED <<envPort, port, pc, exitStatus, listening, cur, sigint, bind, intrDuring>>
    /\ UNCHANGED clientVars

\* lines 98-101: any other path is logged, answered 404 with no body, and the
\* handler returns; the server closes the connection
DoGetNotFound ==
    /\ pc = "handling" /\ hpc = "do_GET"
    /\ \E c \in cur :
          /\ ~IsMetricsPath(clients[c].path)
          /\ log' = Append(log, <<"WARNING", "Received GET request for unknown path", clients[c].path>>)
          /\ clients' = [clients EXCEPT ![c] = [@ EXCEPT !.status = NotFoundHeaders.status,
                                                        !.headers = NotFoundHeaders.headers,
                                                        !.st = "closed"]]
    /\ cur' = {}
    /\ hpc' = "none"
    /\ pc' = "serve"
    /\ UNCHANGED <<envPort, port, exitStatus, listening, frame, backlog, sigint, bind, sampled, intrDuring>>

\* line 43
StepCpu ==
    /\ pc = "handling" /\ hpc = "cpu"
    /\ \E o \in OsStates :
          /\ frame' = frame @@ ReadCpu(o)
          /\ sampled' = [c \in Clients |-> IF c \in cur THEN [sampled[c] EXCEPT !.cpu = <<o.cpu>>]
                                           ELSE sampled[c]]
    /\ hpc' = StepAfter(hpc)
    /\ UNCHANGED <<envPort, port, pc, exitStatus, listening, log, clients, backlog, cur, sigint, bind, intrDuring>>

\* lines 45-47
StepMemory ==
    /\ pc = "handling" /\ hpc = "mem"
    /\ \E o \in OsStates :
          /\ frame' = frame @@ ReadMemory(o)
          /\ sampled' = [c \in Clients |-> IF c \in cur
                                           THEN [sampled[c] EXCEPT !.memory = <<o.mem_total, o.mem_available>>]
                                           ELSE sampled[c]]
    /\ hpc' = StepAfter(hpc)
    /\ UNCHANGED <<envPort, port, pc, exitStatus, listening, log, clients, backlog, cur, sigint, bind, intrDuring>>

\* lines 49-71: the disk read, then the list is built and joined; generate_metrics
\* returns and its text is the local variable metrics of do_GET (line 92)
StepDisk ==
    /\ pc = "handling" /\ hpc = "disk"
    /\ \E o \in OsStates :
          /\ frame' = ("metrics" :> MetricsText(frame @@ ReadDisk(o)))
          /\ sampled' = [c \in Clients |-> IF c \in cur
                                           THEN [sampled[c] EXCEPT !.disk = <<o.disk_total, o.disk_used>>]
                                           ELSE sampled[c]]
    /\ hpc' = StepAfter(hpc)
    /\ UNCHANGED <<envPort, port, pc, exitStatus, listening, log, clients, backlog, cur, sigint, bind, intrDuring>>

\* a psutil read raises (permission or platform error): the exception leaves
\* generate_metrics and do_GET, which catch nothing; the server closes the
\* connection
ReadFails ==
    /\ pc = "handling" /\ hpc \in {"cpu", "mem", "disk"}
    /\ clients' = [c \in Clients |-> IF c \in cur
                                     THEN [clients[c] EXCEPT !.st = "closed", !.raised = TRUE]
                                     ELSE clients[c]]
    /\ cur' = {}
    /\ hpc' = "none"
    /\ frame' = <<>>
    /\ pc' = AfterHandlerException
    /\ UNCHANGED <<envPort, port, exitStatus, listening, log, backlog, sigint, bind, sampled, intrDuring>>

\* lines 94-96: status line and headers are written to the connection
StepHeaders ==
    /\ pc = "handling" /\ hpc = "headers"
    /\ clients' = [c \in Clients |-> IF c \in cur
                                     THEN [clients[c] EXCEPT !.status = OkHeaders.status,
                                                             !.headers = OkHeaders.headers]
                                     ELSE clients[c]]
    /\ hpc' = StepAfter(hpc)
    /\ UNCHANGED <<envPort, port, pc, exitStatus, listening, log, backlog, cur, frame, sigint, bind, sampled, intrDuring>>

\* line 97: self.wfile.write(metrics.encode("utf-8")); every token is ASCII, so
\* the bytes written are the characters of the text
StepWrite ==
    /\ pc = "handling" /\ hpc = "write"
    /\ clients' = [c \in Clients |-> IF c \in cur
                                     THEN [clients[c] EXCEPT !.body = @ \o frame.metrics]
                                     ELSE clients[c]]
    /\ hpc' = StepAfter(hpc)
    /\ UNCHANGED <<envPort, port, pc, exitStatus, listening, log, backlog, cur, frame, sigint, bind, sampled, intrDuring>>

\* do_GET returns; the server closes the connection and serves again
Finish ==
    /\ pc = "handling" /\ hpc = "done"
    /\ clients' = [c \in Clients |-> IF c \in cur THEN [clients[c] EXCEPT !.st = "closed"]
                                     ELSE clients[c]]
    /\ cur' = {}
    /\ hpc' = "none"
    /\ frame' = <<>>
    /\ pc' = "serve"
    /\ UNCHANGED <<envPort, port, exitStatus, listening, log, backlog, sigint, bind, sampled, intrDuring>>


(***************************************************************************)
(* The interrupt signal and the except clauses, lines 113-120.  The host   *)
(* sends at most one interrupt.  Python raises KeyboardInterrupt in the    *)
(* main thread, which is also the thread that runs the request handler.    *)
(***************************************************************************)
Interrupt ==
    /\ sigint = "none"
    /\ pc # "exited"
    /\ sigint' = "taken"
    /\ intrDuring' = cur
    /\ IF pc \in {"bind", "bound", "serve", "handling"}
       THEN \* inside the try of line 113: caught on line 117.  A request in
            \* the handler is abandoned and its connection closed.
            /\ pc' = "except_kbd"
            /\ UNCHANGED <<exitStatus, listening>>
       ELSE \* outside the try, or inside an except clause: not caught, the
            \* interpreter ends the process on the signal
            /\ pc' = "exited"
            /\ exitStatus' = <<130>>
            /\ listening' = FALSE
    /\ clients' = [c \in Clients |-> IF c \in cur THEN [clients[c] EXCEPT !.st = "closed"]
                                     ELSE clients[c]]
    /\ cur' = {}
    /\ hpc' = "none"
    /\ frame' = <<>>
    /\ UNCHANGED <<envPort, port, log, backlog, bind, sampled>>

\* lines 117-118: except KeyboardInterrupt: logger.info("Shutting down the
\* exporter."); the script ends
LogShutdown ==
    /\ pc = "except_kbd"
    /\ log' = Append(log, <<"INFO", "Shutting down the exporter.">>)
    /\ pc' = "exited"
    /\ exitStatus' = StatusAfterExcept
    /\ listening' = FALSE
    /\ UNCHANGED <<envPort, port, sigint, bind, intrDuring>>
    /\ UNCHANGED handlerVars
    /\ UNCHANGED clientVars

\* lines 119-120: except Exception as e: logger.error("An error occurred: ...");
\* the script ends
LogError ==
    /\ pc = "except_err"
    /\ log' = Append(log, <<"ERROR", "An error occurred">>)
    /\ pc' = "exited"
    /\ exitStatus' = StatusAfterExcept
    /\ listening' = FALSE
    /\ UNCHANGED <<envPort, port, sigint, bind, intrDuring>>
    /\ UNCHANGED handlerVars
    /\ UNCHANGED clientVars

Next ==
    \/ LoadConfig
    \/ LogStarting
    \/ Bind
    \/ LogRunning
    \/ \E c \in Clients : Connect(c)
    \/ Accept
    \/ DoGetMetrics
    \/ DoGetNotFound
    \/ StepCpu
    \/ StepMemory
    \/ StepDisk
    \/ ReadFails
    \/ StepHeaders
    \/ StepWrite
    \/ Finish
    \/ Interrupt
    \/ LogShutdown
    \/ LogError

Spec == Init /\ [][Next]_vars

\* the script from its start to serve_forever, for every EXPORTER_PORT text,
\* with no client connecting
NextStartup ==
    \/ LoadConfig
    \/ LogStarting
    \/ Bind
    \/ LogRunning
    \/ Interrupt
    \/ LogShutdown
    \/ LogError

StartupSpec == InitConfig /\ [][NextStartup]_vars


\* the steps of the program itself: the main thread runs whenever it can
ProgramStep ==
    \/ LoadConfig
    \/ LogStarting
    \/ Bind
    \/ LogRunning
    \/ Accept
    \/ DoGetMetrics
    \/ DoGetNotFound
    \/ StepCpu
    \/ StepMemory
    \/ StepDisk
    \/ StepHeaders
    \/ StepWrite
    \/ Finish
    \/ LogError

\* runs with no interrupt and no failing read, the main thread scheduled fairly
NextQuiet ==
    \/ ProgramStep
    \/ \E c \in Clients : Connect(c)

LiveSpec == Init /\ [][NextQuiet]_vars /\ WF_vars(ProgramStep)

(***************************************************************************)
(* Reading a response.                                                     *)
(***************************************************************************)
\* the lines of a text: the tokens between the newlines
RECURSIVE SplitLines(_, _)
SplitLines(text, line) ==
    IF text = <<>> THEN <<line>>
    ELSE IF Head(text) = NL THEN <<line>> \o SplitLines(Tail(text), <<>>)
    ELSE SplitLines(Tail(text), Append(line, Head(text)))

BodyLines(c) == SplitLines(clients[c].body, <<>>)

MetricNames == <<"cpu_usage", "memory_total", "memory_used", "disk_total", "disk_used">>

\* the five values the reads made for the request of c returned, as the
\* response is to show them
SampledValues(c) ==
    LET sm == sampled[c]
    IN  << FloatStr(sm.cpu[1]),
           IntStr(sm.memory[1]), IntStr(sm.memory[1] - sm.memory[2]),
           IntStr(sm.disk[1]), IntStr(sm.disk[2]) >>

FullySampled(c) ==
    sampled[c].cpu # <<>> /\ sampled[c].memory # <<>> /\ sampled[c].disk # <<>>

HasHeader(c, name) == \E i \in 1 .. Len(clients[c].headers) : clients[c].headers[i][1] = name

\* the handler of the request of c ran to its return: the connection was
\* closed by the server after do_GET, not by an exception or the interrupt
Returned(c) ==
    /\ clients[c].st = "closed"
    /\ ~clients[c].raised
    /\ c \notin intrDuring

\* the response of c is the complete metrics response for the values sampled for c
MetricsResponse(c) ==
    /\ clients[c].status = <<200>>
    /\ \E i \in 1 .. Len(clients[c].headers) : clients[c].headers[i] = <<"Content-type", "text/plain">>
    /\ FullySampled(c)
    /\ LET lines == BodyLines(c) IN
          /\ Len(lines) = 15
          /\ \A k \in 1 .. 5 :
                /\ Len(lines[3 * k - 2]) = 4
                /\ SubSeq(lines[3 * k - 2], 1, 3) = <<"#", "HELP", MetricNames[k]>>
                /\ lines[3 * k - 1] = <<"#", "TYPE", MetricNames[k], "gauge">>
                /\ lines[3 * k] = <<MetricNames[k], SampledValues(c)[k]>>

\* the response of c is the not-found response
NotFoundResponse(c) ==
    /\ clients[c].status = <<404>>
    /\ clients[c].body = <<>>
    /\ ~HasHeader(c, "Content-type")

(***************************************************************************)
(* C1: every GET request for the path "/" whose three OS reads succeed and *)
(* whose handler returns is answered 200 with Content-type: text/plain and *)
(* a body of exactly 15 lines, HELP, TYPE and value line for cpu_usage,    *)
(* memory_total, memory_used, disk_total, disk_used in this order, each    *)
(* value the one the OS returned while this request was handled.           *)
(***************************************************************************)
C1_MetricsResponse ==
    \A c \in Clients :
        (clients[c].method = "GET" /\ clients[c].path = "/" /\ Returned(c))
            => MetricsResponse(c)

C1_Witness ==
    \E c \in Clients :
        /\ clients[c].method = "GET" /\ clients[c].path = "/" /\ Returned(c)
        /\ clients[c].status = <<200>>
        /\ Len(BodyLines(c)) = 15
        /\ sampled[c].cpu = <<1000>> /\ sampled[c].memory = <<16, 8>>

(***************************************************************************)
(* C2: every GET request for a path other than exactly "/" whose handler   *)
(* returns is answered 404 with an empty body and no Content-type header,  *)
(* and no OS metric is read for it at any time.                            *)
(***************************************************************************)
C2_NotFound ==
    \A c \in Clients :
        (clients[c].method = "GET" /\ clients[c].path # "/" /\ clients[c].st # "idle")
            => /\ sampled[c] = NoSample
               /\ c \in cur => hpc = "do_GET"
               /\ Returned(c) => NotFoundResponse(c)

C2_Witness ==
    \E c \in Clients :
        /\ clients[c].method = "GET" /\ clients[c].path = "/?x=1" /\ Returned(c)
        /\ clients[c].status = <<404>>

(***************************************************************************)
(* C10: when one of the three OS reads fails during a GET /, the exception *)
(* leaves do_GET and nothing of a response has been written for that       *)
(* request: no status line, no header, no body, no values put in the place *)
(* of the failed read.                                                     *)
(***************************************************************************)
C10_FailurePropagates ==
    \A c \in Clients :
        clients[c].raised
            => /\ clients[c].st = "closed"
               /\ c \notin cur
               /\ clients[c].status = <<>>
               /\ clients[c].headers = <<>>
               /\ clients[c].body = <<>>
               /\ ~FullySampled(c)

C10_Witness ==
    \E c \in Clients :
        /\ clients[c].raised
        /\ sampled[c].cpu # <<>> /\ sampled[c].memory # <<>> /\ sampled[c].disk = <<>>
        /\ clients[c].status = <<>>


(***************************************************************************)
(* C3 as stated: the method is not validated, a request with any method is *)
(* routed as a GET with the same path: "/" gets the 200 metrics response   *)
(* and any other path the 404 response.                                    *)
(***************************************************************************)
C3_AnyMethodRoutedAsGet ==
    \A c \in Clients :
        Returned(c)
            => /\ clients[c].path = "/" => MetricsResponse(c)
               /\ clients[c].path # "/" => NotFoundResponse(c)

(***************************************************************************)
(* C3 amended: only GET is routed by path ("/" gets the 200 metrics        *)
(* response, any other path the 404 response).  A request with any other   *)
(* method never enters do_GET: no OS metric is read for it and it is       *)
(* answered 501 whatever its path.                                         *)
(***************************************************************************)
C3_OnlyGetIsRouted ==
    \A c \in Clients :
        /\ (clients[c].method = "GET" /\ Returned(c))
              => /\ clients[c].path = "/" => MetricsResponse(c)
                 /\ clients[c].path # "/" => NotFoundResponse(c)
        /\ (clients[c].method # "GET" /\ clients[c].st # "idle")
              => /\ clients[c].st \in {"queued", "closed"}
                 /\ c \notin cur
                 /\ sampled[c] = NoSample
                 /\ clients[c].st = "closed" => clients[c].status = <<501>>

C3_Witness ==
    \E c, d \in Clients :
        /\ clients[c].method = "POST" /\ clients[c].path = "/"
        /\ clients[c].st = "closed" /\ clients[c].status = <<501>>
        /\ clients[d].method = "HEAD" /\ clients[d].path = "/metrics"
        /\ clients[d].st = "closed" /\ clients[d].status = <<501>>

(***************************************************************************)
(* C4: an exception raised while one request is handled (a failing OS      *)
(* read) does not take the server out of service: the process has not      *)
(* exited, the listening socket is open, the main thread is in the serve   *)
(* loop or in a later handler (until an interrupt is taken), and a GET /   *)
(* whose reads succeed is still answered with the 200 metrics response.    *)
(***************************************************************************)
C4_ExceptionKeepsServing ==
    (\E c \in Clients : clients[c].raised)
        => /\ sigint = "none"
              => /\ pc \in {"serve", "handling"}
                 /\ listening
                 /\ exitStatus = <<>>
           /\ \A i \in 1 .. Len(log) : log[i][1] # "ERROR"
           /\ \A d \in Clients :
                 (clients[d].method = "GET" /\ clients[d].path = "/" /\ Returned(d))
                     => MetricsResponse(d)

\* one request has raised and a request accepted after it has its 200 response written
C4_Witness ==
    \E c \in Clients, d \in cur :
        /\ clients[c].raised
        /\ hpc = "done"
        /\ clients[d].status = <<200>>
        /\ Len(BodyLines(d)) = 15

(***************************************************************************)
(* C5 as stated: when the bind of the configured host and port fails, the  *)
(* error is logged at ERROR level, the bind is not retried, no request is  *)
(* ever handled and the process ends with a non-zero exit status.          *)
(***************************************************************************)
C5_BindFailureExitsNonZero ==
    (bind = "failed" /\ sigint = "none" /\ pc = "exited")
        => /\ \E i \in 1 .. Len(log) : log[i][1] = "ERROR"
           /\ ~listening
           /\ \A c \in Clients : clients[c].st = "idle"
           /\ exitStatus # <<0>>

(***************************************************************************)
(* C6 as stated: if the interrupt arrives while a request is being         *)
(* handled, that request still gets its full response before the process   *)
(* has stopped.                                                            *)
(***************************************************************************)
C6_InFlightRequestCompletes ==
    \A c \in intrDuring :
        pc = "exited"
            => /\ clients[c].path = "/" => MetricsResponse(c)
               /\ clients[c].path # "/" => NotFoundResponse(c)

(***************************************************************************)
(* C7 as stated: once the bind has succeeded the server only moves         *)
(* Listening -> Handling -> Listening ..., Listening -> ShuttingDown on    *)
(* the interrupt, ShuttingDown -> Stopped; after the interrupt is taken no *)
(* connection is accepted and no request handled; the process stops with   *)
(* the shutdown message logged and exit status 0; Stopped is never left.   *)
(***************************************************************************)
LifecycleSteps ==
    { <<"Idle", "Listening">>, <<"Listening", "Handling">>, <<"Handling", "Listening">>,
      <<"Listening", "ShuttingDown">>, <<"ShuttingDown", "Stopped">> }

C7_Lifecycle ==
    [][ bind = "ok"
          => /\ State' # State => <<State, State'>> \in LifecycleSteps
             /\ sigint = "taken"
                   => /\ cur' = {}
                      /\ Len(backlog') >= Len(backlog)
                      /\ \A c \in Clients :
                            /\ clients'[c].st # "active"
                            /\ clients[c].st = "queued" => clients'[c].st = "queued"
                            /\ clients'[c].status = clients[c].status
                            /\ clients'[c].body = clients[c].body
             /\ State = "Stopped" => State' = "Stopped"
             /\ (State' = "Stopped" /\ State # "Stopped")
                   => /\ exitStatus' = <<0>>
                      /\ log'[Len(log')] = <<"INFO", "Shutting down the exporter.">> ]_vars


(***************************************************************************)
(* C8: an EXPORTER_PORT value that is no number (it holds a character that *)
(* is no digit, sign, underscore or blank, or it holds no digit) makes the *)
(* process fail at line 12, before line 114: nothing is bound, the server  *)
(* never listens, no default port is used, and the process ends with a     *)
(* non-zero exit status.                                                   *)
(***************************************************************************)
NonNumeric(s) ==
    \/ \A i \in 1 .. Len(s) : s[i] \notin Digits
    \/ \E i \in 1 .. Len(s) : s[i] \notin Digits \cup {"+", "-", "_", " "}

C8_BadPortFailsStartup ==
    (envPort # Unset /\ NonNumeric(envPort))
        => /\ pc \in {"import", "exited"}
           /\ port = <<>>
           /\ bind = "none"
           /\ ~listening
           /\ log = <<>>
           /\ pc = "exited" => (exitStatus # <<>> /\ exitStatus # <<0>>)

C8_Witness ==
    /\ envPort = <<"8", "a">>
    /\ pc = "exited"
    /\ sigint = "none"
    /\ exitStatus = <<1>>

(***************************************************************************)
(* C9: when several clients have sent GET / at the same time and neither   *)
(* an interrupt nor a failing read occurs, each of them is eventually      *)
(* answered with the complete 200 metrics response built from the values   *)
(* read for its own request: none is lost, written twice or mixed with the *)
(* values of another request.                                              *)
(***************************************************************************)
C9_EveryRequestAnswered ==
    \A c \in Clients :
        (clients[c].st = "queued" /\ clients[c].method = "GET" /\ clients[c].path = "/")
            ~> (clients[c].st = "closed" /\ MetricsResponse(c))

\* one GET / has its response written while every other client waits with a GET /
C9_Witness ==
    \E d \in cur :
        /\ hpc = "done"
        /\ MetricsResponse(d)
        /\ \A c \in Clients \ {d} :
              clients[c].st = "queued" /\ clients[c].method = "GET" /\ clients[c].path = "/"

=============================================================================
